---------------------------- MODULE Spec2Model ----------------------------
(***************************************************************************)
(* Radar map component (src/components/Resium.tsx and its sibling          *)
(* variants): the coordinate transform radarToWGS84 and the track cache    *)
(* kept in the React state `vehicles` (upsert on new_radar_data, sweep on  *)
(* a 1000 ms interval), together with the mount / unmount life cycle of    *)
(* the effects that own the timer and the socket.                          *)
(*                                                                         *)
(* Numbers.  The source computes with JavaScript numbers (binary floating  *)
(* point, round to nearest even).  The model keeps that arithmetic and     *)
(* narrows the significand to MantBits bits: a number is a record          *)
(* [s, m, e] that stands for s * m * 2^e with m = 0 or                     *)
(* 2^(MantBits-1) <= m < 2^MantBits.  Every *, / and + of the source is    *)
(* one correctly rounded operation here, so the conversion degrees ->      *)
(* radians -> degrees loses what the source loses.                         *)
(***************************************************************************)
EXTENDS Integers, Sequences, FiniteSets, TLC

VARIABLES
  call,             \* arguments of the radarToWGS84 call under study
  ret,              \* its return value, once it has returned
  alive,            \* life cycle of the component: "new", "mounted", "gone"
  clock,            \* Date.now(), milliseconds
  terrainPromise,   \* Cesium.createWorldTerrainAsync(): "none", "pending", "settled"
  mountedFlag,      \* `mounted` of the terrain effect
  terrainProvider,  \* state terrainProvider: "null" or "loaded"
  pendingTerrain,   \* setTerrainProvider(provider) not yet rendered
  interval,         \* the sweep timer: [active, due]
  socket,           \* the socket of the socket effect
  vehicles,         \* state vehicles: id -> VehicleState
  queue,            \* setVehicles updaters not yet rendered
  last,             \* the step just taken, with the cache and queue before it
  opened,           \* the sockets of earlier runs of the socket effect
  vehiclesRef,      \* vehiclesRef.current of the variant without timestamps
  subscription,     \* the rooms the server has the socket in, and its connect events
  viewerRef,        \* viewerRef.current of CesiumMap.tsx: the viewer and its entities
  hook              \* the useCesium hook: its refs, pending loads and viewers

\* width of the significand of a model number
MantBits == 24

\* limb used to split a significand for multiplication (15 bits)
Limb == 2^15
LimbSq == Limb * Limb

---------------------------------------------------------------------------
(* Floating-point arithmetic                                               *)

RECURSIVE BitLen(_)
BitLen(n) == IF n = 0 THEN 0 ELSE 1 + BitLen(n \div 2)

Zero == [s |-> 1, m |-> 0, e |-> 0]

\* the number nearest to s * q * 2^e, given the remainder r of q against
\* 2^k (ties to even); q has exactly MantBits bits
RoundUp(s, q, r, half, e) ==
  LET up == (r > half) \/ (r = half /\ q % 2 = 1)
      q1 == IF up THEN q + 1 ELSE q
  IN  IF q1 = 2^MantBits
        THEN [s |-> s, m |-> 2^(MantBits - 1), e |-> e + 1]
        ELSE [s |-> s, m |-> q1, e |-> e]

\* s * n * 2^e rounded to MantBits bits, n < 2^31
Norm(s, n, e) ==
  IF n = 0 THEN Zero
  ELSE LET k == BitLen(n) - MantBits
       IN  IF k <= 0
             THEN [s |-> s, m |-> n * 2^(-k), e |-> e + k]
             ELSE RoundUp(s, n \div 2^k, n % 2^k, 2^(k - 1), e + k)

\* s * (H * 2^30 + L) * 2^e rounded to MantBits bits, L < 2^30
NormHL(s, H, L, e) ==
  IF H = 0 THEN Norm(s, L, e)
  ELSE LET k == BitLen(H) + 30 - MantBits
       IN  RoundUp(s, H * 2^(30 - k) + L \div 2^k, L % 2^k, 2^(k - 1), e + k)

\* -a (the sign of zero is not kept: -0 and 0 are the same number)
Neg(a) == IF a.m = 0 THEN Zero ELSE [a EXCEPT !.s = -a.s]

\* a * b
Mul(a, b) ==
  IF a.m = 0 \/ b.m = 0 THEN Zero
  ELSE LET ah == a.m \div Limb
           al == a.m % Limb
           bh == b.m \div Limb
           bl == b.m % Limb
           mid == ah * bl + al * bh
           t == al * bl + (mid % Limb) * Limb
       IN  NormHL(a.s * b.s, ah * bh + mid \div Limb + t \div LimbSq,
                  t % LimbSq, a.e + b.e)

\* long division: i more quotient bits of r / d
RECURSIVE DivBits(_, _, _, _)
DivBits(r, q, d, i) ==
  IF i = 0 THEN <<q, r>>
  ELSE IF 2 * r >= d THEN DivBits(2 * r - d, 2 * q + 1, d, i - 1)
       ELSE DivBits(2 * r, 2 * q, d, i - 1)

\* a / b, b # 0
Div(a, b) ==
  IF a.m = 0 THEN Zero
  ELSE LET qr == DivBits(a.m % b.m, a.m \div b.m, b.m, MantBits + 1)
           sticky == IF qr[2] > 0 THEN 1 ELSE 0
       IN  Norm(a.s * b.s, 2 * qr[1] + sticky, a.e - b.e - MantBits - 2)

\* x + y for x of the larger exponent: three guard bits, the bits of y
\* shifted out are kept as a sticky bit
AddOrdered(x, y) ==
  LET d == x.e - y.e
  IN  IF d <= 3
        THEN LET n == x.s * x.m * 2^d + y.s * y.m
             IN  IF n >= 0 THEN Norm(1, n, y.e) ELSE Norm(-1, -n, y.e)
        ELSE LET sh == d - 3
                 ys == IF sh >= MantBits THEN 0 ELSE y.m \div 2^sh
                 lost == IF sh >= MantBits THEN TRUE ELSE y.m % 2^sh # 0
                 yg == IF lost /\ ys % 2 = 0 THEN ys + 1 ELSE ys
                 n == x.s * x.m * 8 + y.s * yg
             IN  IF n >= 0 THEN Norm(1, n, x.e - 3) ELSE Norm(-1, -n, x.e - 3)

\* a + b
Add(a, b) ==
  IF a.m = 0 THEN b
  ELSE IF b.m = 0 THEN a
  ELSE IF a.e >= b.e THEN AddOrdered(a, b) ELSE AddOrdered(b, a)

\* a - b
Sub(a, b) == Add(a, Neg(b))

\* the model number of an integer
FromInt(n) == IF n >= 0 THEN Norm(1, n, 0) ELSE Norm(-1, -n, 0)

\* the model number nearest to s * n * 2^e (a literal of the source)
Num(s, n, e) == Norm(s, n, e)

\* |a - b| <= k units in the last place of b
Within(a, b, k) ==
  LET d == Sub(a, b)
      t == d.e - b.e
  IN  \/ d.m = 0
      \/ b.m # 0 /\ t <= 0 /\ (t < -30 \/ d.m <= k * 2^(-t))

---------------------------------------------------------------------------
(* Site configuration and the angles the model computes with              *)

Deg0 == Zero
Deg90 == FromInt(90)
Deg180 == FromInt(180)
Deg270 == FromInt(270)
\* detector of the worked example of the transform: 35.8358, 129.2844
LatExample == Num(1, 601224957, -24)
LonExample == Num(1, 542258077, -22)
\* detectors of siteData: roads 55, 56, 57
Lat55 == Num(1, 601223081, -24)
Lon55 == Num(1, 542258081, -22)
Dir55 == Num(1, 567631431, -21)
Lat56 == Num(1, 601230565, -24)
Lon56 == Num(1, 542258395, -22)
Lat57 == Num(1, 601226479, -24)
Lon57 == Num(1, 542257859, -22)
Dir57 == FromInt(1)

\* Math.cos and Math.sin on the angles the model uses, each value the one
\* the runtime returns (cos(90 deg) is 6.1e-17, not 0) as a model number
Angles ==
  { [deg |-> Deg0, cos |-> FromInt(1), sin |-> Zero],
    [deg |-> Deg90, cos |-> Num(1, 592202855, -83), sin |-> FromInt(1)],
    [deg |-> Deg180, cos |-> FromInt(-1), sin |-> Num(1, 592202855, -82)],
    [deg |-> Deg270, cos |-> Num(-1, 888304281, -82), sin |-> FromInt(-1)],
    [deg |-> Dir57, cos |-> Num(1, 1073578287, -30), sin |-> Num(1, 599660119, -35)],
    [deg |-> Dir55, cos |-> Num(1, 800878785, -36), sin |-> Num(-1, 1073668903, -30)],
    [deg |-> LatExample, cos |-> Num(1, 870480525, -30), sin |-> Num(1, 628637545, -30)],
    [deg |-> Lat55, cos |-> Num(1, 870481751, -30), sin |-> Num(1, 628635845, -30)],
    [deg |-> Lat56, cos |-> Num(1, 870476857, -30), sin |-> Num(1, 628642621, -30)],
    [deg |-> Lat57, cos |-> Num(1, 870479529, -30), sin |-> Num(1, 628638921, -30)] }

\* Math.PI
PI == Num(1, 843314857, -28)
C180 == FromInt(180)

\* (deg * Math.PI) / 180
ToRadians(deg) == Div(Mul(deg, PI), C180)
\* (rad * 180) / Math.PI
ToDegrees(rad) == Div(Mul(rad, C180), PI)

\* Cesium.Math.RADIANS_PER_DEGREE and Cesium.Math.toRadians
RADIANS_PER_DEGREE == Div(PI, C180)
CesiumToRadians(deg) == Mul(deg, RADIANS_PER_DEGREE)

\* the table by the radians the source passes to Math.cos and Math.sin
AnglesRad ==
  {[rad |-> ToRadians(a.deg), cos |-> a.cos, sin |-> a.sin] : a \in Angles}
  \cup {[rad |-> CesiumToRadians(a.deg), cos |-> a.cos, sin |-> a.sin] : a \in Angles}

MathCos(rad) == (CHOOSE a \in AnglesRad : a.rad = rad).cos
MathSin(rad) == (CHOOSE a \in AnglesRad : a.rad = rad).sin

---------------------------------------------------------------------------
(* radarToWGS84                                                            *)

\* earth radius in metres
R == FromInt(6371000)

rotatedX(radarDirection, xpos, ypos) ==
  LET dirRad == ToRadians(radarDirection)
  IN  Sub(Mul(xpos, MathCos(dirRad)), Mul(ypos, MathSin(dirRad)))

rotatedY(radarDirection, xpos, ypos) ==
  LET dirRad == ToRadians(radarDirection)
  IN  Add(Mul(xpos, MathSin(dirRad)), Mul(ypos, MathCos(dirRad)))

\* radarRelativeToWorld composing east and north as radarToWGS84 does
radarRelativeToWorld_AsRotated(radarLat, radarLng, xpos, ypos, directionDeg) ==
  [origin |-> [lat |-> radarLat, lng |-> radarLng],
   east |-> rotatedX(directionDeg, xpos, ypos),
   north |-> rotatedY(directionDeg, xpos, ypos)]

\* radarRelativeToWorld of the second component: the origin and the
\* east/north offset it hands to the ENU-to-world transform
radarRelativeToWorld(radarLat, radarLng, xpos, ypos, directionDeg) ==
  LET heading == CesiumToRadians(directionDeg)
  IN  [origin |-> [lat |-> radarLat, lng |-> radarLng],
       east |-> Add(Mul(xpos, MathSin(heading)), Mul(ypos, MathCos(heading))),
       north |-> Sub(Mul(xpos, MathCos(heading)), Mul(ypos, MathSin(heading)))]

\* radarToWGS84 with an earth radius that follows the clock
radarToWGS84_ReadsClock(radarLat, radarLon, radarDirection, xpos, ypos) ==
  LET lat1 == ToRadians(radarLat)
      Rnow == Add(R, FromInt(clock * 10))
      dLat == Div(rotatedY(radarDirection, xpos, ypos), Rnow)
      dLon == Div(rotatedX(radarDirection, xpos, ypos), Mul(Rnow, MathCos(lat1)))
      objLat == Add(lat1, dLat)
      objLon == Add(ToRadians(radarLon), dLon)
  IN  [latitude |-> ToDegrees(objLat), longitude |-> ToDegrees(objLon)]

\* radarToWGS84 with the longitude offset added to degrees, not radians
radarToWGS84_LonInDegrees(radarLat, radarLon, radarDirection, xpos, ypos) ==
  LET lat1 == ToRadians(radarLat)
      dLat == Div(rotatedY(radarDirection, xpos, ypos), R)
      dLon == Div(rotatedX(radarDirection, xpos, ypos), Mul(R, MathCos(lat1)))
      objLat == Add(lat1, dLat)
      objLon == Add(radarLon, dLon)
  IN  [latitude |-> ToDegrees(objLat), longitude |-> ToDegrees(objLon)]

radarToWGS84(radarLat, radarLon, radarDirection, xpos, ypos) ==
  LET lat1 == ToRadians(radarLat)
      dLat == Div(rotatedY(radarDirection, xpos, ypos), R)
      dLon == Div(rotatedX(radarDirection, xpos, ypos), Mul(R, MathCos(lat1)))
      objLat == Add(lat1, dLat)
      objLon == Add(ToRadians(radarLon), dLon)
  IN  [latitude |-> ToDegrees(objLat), longitude |-> ToDegrees(objLon)]

---------------------------------------------------------------------------
(* Site, detectorMap and the payloads of new_radar_data                    *)

\* siteData
site ==
  [ site_id |-> 213,
    roads |-> << [road_id |-> 55,
                  detector |-> [lat |-> Lat55, lng |-> Lon55, direction_deg |-> Dir55]],
                 [road_id |-> 56,
                  detector |-> [lat |-> Lat56, lng |-> Lon56, direction_deg |-> Dir55]],
                 [road_id |-> 57,
                  detector |-> [lat |-> Lat57, lng |-> Lon57, direction_deg |-> Dir57]] >> ]

\* the callback of useMemo on the roads of a site: a later road with the
\* road_id of an earlier one replaces it
detectorMapOf(roads) ==
  [ n \in {roads[i].road_id : i \in DOMAIN roads} |->
      LET i == CHOOSE j \in DOMAIN roads :
                 /\ roads[j].road_id = n
                 /\ \A k \in DOMAIN roads : roads[k].road_id = n => k <= j
      IN  roads[i].detector ]

\* useMemo: road_id -> { lat, lng, direction_deg }
detectorMap == detectorMapOf(site.roads)

\* a value that is undefined or null
Undefined == [s |-> 0, m |-> 0, e |-> 0]

\* detections; a JSON value used as text (road_id, object_id) is kept as
\* the text `${v}` gives
ObjA == [object_id |-> "1", xpos |-> FromInt(100), ypos |-> Zero,
         heading |-> FromInt(90), object_type |-> 1]
ObjB == [object_id |-> "1", xpos |-> Zero, ypos |-> FromInt(-40),
         heading |-> Undefined, object_type |-> 8]
ObjC == [object_id |-> "2", xpos |-> FromInt(100), ypos |-> FromInt(-40),
         heading |-> Zero, object_type |-> 1]

\* the JSON value null where a detection is expected; a detection of the
\* model has a non-empty object_id
Null == [object_id |-> "", xpos |-> Undefined, ypos |-> Undefined,
         heading |-> Undefined, object_type |-> 0]

\* a payload that JSON.parse rejects
Garbage == [json |-> FALSE, road_id |-> "", data |-> << >>]

\* the payloads the server sends
Payloads ==
  { [json |-> TRUE, road_id |-> "55", data |-> <<ObjA, ObjC>>],
    [json |-> TRUE, road_id |-> "55", data |-> <<ObjB>>],
    [json |-> TRUE, road_id |-> "57", data |-> <<ObjA, ObjB>>],
    [json |-> TRUE, road_id |-> "99", data |-> <<ObjA>>],
    Garbage }

\* payloads of a server that does not always spell a road_id the same way
Respelled ==
  { [json |-> TRUE, road_id |-> "55", data |-> <<ObjB>>],
    [json |-> TRUE, road_id |-> "055", data |-> <<ObjB>>],
    [json |-> TRUE, road_id |-> "57", data |-> <<ObjC>>] }

\* the payloads of a server that sends null in place of a detection
Malformed ==
  { [json |-> TRUE, road_id |-> "55", data |-> <<ObjA, Null>>],
    [json |-> TRUE, road_id |-> "55", data |-> <<ObjB>>],
    [json |-> TRUE, road_id |-> "57", data |-> <<ObjC>>] }

\* Number(msg.road_id): the text is read as a decimal numeral, leading
\* zeros do not count and the empty text is 0
Number(v) ==
  CASE v = "55" -> 55
    [] v = "055" -> 55
    [] v = "56" -> 56
    [] v = "57" -> 57
    [] v = "99" -> 99
    [] v = "" -> 0

\* the instants at which the model looks at the clock
Instants == {0, 999, 1000, 1001, 4000, 5001, 8002}
\* the last of them
Horizon == CHOOSE t \in Instants : \A u \in Instants : u <= t

\* the sweep keeps a track for this long after its last update
StaleAfter == 3000
\* period of the sweep timer
SweepEvery == 1000
\* most setVehicles updaters waiting for one render
MaxQueue == 2
\* most sockets the component leaves behind when its socket effect runs again
MaxSockets == 2
\* most connect events of one socket
MaxConnects == 2

---------------------------------------------------------------------------
(* The setVehicles updaters                                                *)

\* `${msg.road_id}-${obj.object_id}`
TrackId(msg, obj) == msg.road_id \o "-" \o obj.object_id

\* a heading that is not reduced
Mod360_NotReduced(a) == a

\* a % 360 for -360 < a < 720 (the remainder keeps the sign of a)
Mod360(a) ==
  LET d == Sub(a, FromInt(360))
  IN  IF d.m # 0 /\ d.s = -1 THEN a ELSE d

\* obj.heading || 0
OrZero(h) == IF h.s = 0 \/ h.m = 0 THEN Zero ELSE h

\* radarToWGS84 and the heading on the detectors and detections of the
\* model, evaluated once
Located ==
  { [radar |-> d, obj |-> o,
     wgs84 |-> radarToWGS84(d.lat, d.lng, d.direction_deg, o.xpos, o.ypos),
     heading |-> Mod360(Add(d.direction_deg, OrZero(o.heading)))] :
      d \in {detectorMap[n] : n \in DOMAIN detectorMap}, o \in {ObjA, ObjB, ObjC} }

\* the value of next.set(id, { id, position, heading, type, lastUpdate })
\* for the row of Located of a detection
VehicleState(row, id, type, t) ==
  [ id |-> id,
    position |-> [longitude |-> row.wgs84.longitude, latitude |-> row.wgs84.latitude],
    heading |-> row.heading,
    type |-> type,
    lastUpdate |-> t ]

\* the VehicleState written for one detection, at time t
VehicleOf(msg, radar, obj, t) ==
  VehicleState(CHOOSE r \in Located : r.radar = radar /\ r.obj = obj,
               TrackId(msg, obj), obj.object_type, t)

\* next.set(id, value)
MapSet(next, id, value) ==
  [k \in DOMAIN next \cup {id} |-> IF k = id THEN value ELSE next[k]]

\* msg.data.forEach(...) from detection i on
RECURSIVE ForEachObj(_, _, _, _, _)
ForEachObj(next, msg, radar, t, i) ==
  IF i > Len(msg.data) THEN next
  ELSE ForEachObj(MapSet(next, TrackId(msg, msg.data[i]),
                         VehicleOf(msg, radar, msg.data[i], t)),
                  msg, radar, t, i + 1)

\* the forEach of an updater that writes a detection only when its id is
\* not in the map yet
RECURSIVE ForEachObj_KeepExisting(_, _, _, _, _)
ForEachObj_KeepExisting(next, msg, radar, t, i) ==
  IF i > Len(msg.data) THEN next
  ELSE LET id == TrackId(msg, msg.data[i])
       IN  ForEachObj_KeepExisting(
             IF id \in DOMAIN next THEN next
             ELSE MapSet(next, id, VehicleOf(msg, radar, msg.data[i], t)),
             msg, radar, t, i + 1)

UpsertUpdater_KeepExisting(prev, msg, radar, t) ==
  ForEachObj_KeepExisting(prev, msg, radar, t, 1)

\* an updater that starts from an empty Map instead of a copy of prev
UpsertUpdater_FromEmpty(prev, msg, radar, t) == ForEachObj(<< >>, msg, radar, t, 1)

\* the updater of the new_radar_data handler, run at time t
UpsertUpdater(prev, msg, radar, t) == ForEachObj(prev, msg, radar, t, 1)

\* a sweep that removes a track already at the timeout
SweepUpdater_AtTimeout(prev, now) ==
  LET stale == {id \in DOMAIN prev : now - prev[id].lastUpdate >= StaleAfter}
  IN  [id \in DOMAIN prev \ stale |-> prev[id]]

\* a sweep that subtracts the wrong way round
SweepUpdater_Reversed(prev, now) ==
  LET stale == {id \in DOMAIN prev : prev[id].lastUpdate - now > StaleAfter}
  IN  [id \in DOMAIN prev \ stale |-> prev[id]]

\* a sweep that deletes one stale track and stops
SweepUpdater_OneAtATime(prev, now) ==
  LET stale == {id \in DOMAIN prev : now - prev[id].lastUpdate > StaleAfter}
      gone == IF stale = {} THEN {} ELSE {CHOOSE id \in stale : TRUE}
  IN  [id \in DOMAIN prev \ gone |-> prev[id]]

\* the updater of the sweep timer, for the `now` its tick read
SweepUpdater(prev, now) ==
  LET stale == {id \in DOMAIN prev : now - prev[id].lastUpdate > StaleAfter}
  IN  [id \in DOMAIN prev \ stale |-> prev[id]]

\* a sweep updater that always returns the copy
changed_Always(prev, now) == TRUE

\* `changed` of the sweep updater: it returns next when changed, else prev
changed(prev, now) ==
  \E id \in DOMAIN prev : now - prev[id].lastUpdate > StaleAfter

NoMsg == Garbage
NoRadar == [lat |-> Zero, lng |-> Zero, direction_deg |-> Zero]
UpsertOf(msg, radar) == [kind |-> "upsert", msg |-> msg, radar |-> radar, now |-> 0]
SweepOf(now) == [kind |-> "sweep", msg |-> NoMsg, radar |-> NoRadar, now |-> now]

\* one queued updater applied to prev during a render at time t
ApplyUpdate(prev, u, t) ==
  IF u.kind = "upsert" THEN UpsertUpdater(prev, u.msg, u.radar, t)
  ELSE SweepUpdater(prev, u.now)

\* whether updater u returns a Map object other than the prev it is given
ReturnsNext(prev, u) ==
  IF u.kind = "upsert" THEN TRUE ELSE changed(prev, u.now)

\* whether the queue leaves a Map object other than prev
RECURSIVE QueueFresh(_, _, _)
QueueFresh(prev, q, t) ==
  IF q = << >> THEN FALSE
  ELSE \/ ReturnsNext(prev, Head(q))
       \/ Head(q).kind = "sweep"
            /\ QueueFresh(SweepUpdater(prev, Head(q).now), Tail(q), t)

\* every updater applied to the map as it was before the render, the last
\* result kept
ProcessQueue_StaleCopy(prev, q, t) ==
  IF q = << >> THEN prev ELSE ApplyUpdate(prev, q[Len(q)], t)

\* the queue applied in order, each updater to the result of the one before
RECURSIVE ProcessQueue(_, _, _)
ProcessQueue(prev, q, t) ==
  IF q = << >> THEN prev
  ELSE ProcessQueue(ApplyUpdate(prev, Head(q), t), Tail(q), t)

---------------------------------------------------------------------------
(* The component                                                           *)

NoTag == [ev |-> "-", raw |-> Garbage, before |-> << >>, batch |-> << >>,
          escaped |-> FALSE, fresh |-> FALSE]
Tag(ev, raw, before, batch) ==
  [ev |-> ev, raw |-> raw, before |-> before, batch |-> batch, escaped |-> FALSE,
   fresh |-> FALSE]

IdleCall == [radarLat |-> Zero, radarLon |-> Zero, radarDirection |-> Zero,
             xpos |-> Zero, ypos |-> Zero]
NoWorld == [done |-> FALSE, east |-> Zero, north |-> Zero]
NoRet == [done |-> FALSE, latitude |-> Zero, longitude |-> Zero, calls |-> 0,
          world |-> NoWorld]

compVars == <<alive, clock, terrainPromise, mountedFlag, terrainProvider,
              pendingTerrain, interval, socket, vehicles, queue, last, opened,
              vehiclesRef, subscription, viewerRef>>
callVars == <<call, ret>>
refVars == <<opened, vehiclesRef, viewerRef>>
\* viewerRef.current is null
NoViewer == [current |-> 0, entities |-> {}]
\* no room entered, no connect event yet
NoSub == [rooms |-> {}, connects |-> 0]
vars == <<call, ret, alive, clock, terrainPromise, mountedFlag, terrainProvider,
          pendingTerrain, interval, socket, vehicles, queue, last, opened,
          vehiclesRef, subscription, viewerRef, hook>>

\* the component before it is mounted
Unmounted ==
  /\ alive = "new"
  /\ clock = 0
  /\ terrainPromise = "none"
  /\ mountedFlag = FALSE
  /\ terrainProvider = "null"
  /\ pendingTerrain = FALSE
  /\ interval = [active |-> FALSE, due |-> 0]
  /\ socket = "none"
  /\ vehicles = << >>
  /\ queue = << >>
  /\ last = NoTag
  /\ opened = << >>
  /\ vehiclesRef = << >>
  /\ subscription = NoSub
  /\ viewerRef = NoViewer

\* the hook before its effect has run: the container is attached, no viewer
NoHook == [phase |-> "new", runs |-> 0, container |-> TRUE, viewerRef |-> 0,
           loads |-> 0, viewers |-> << >>]

Init ==
  /\ call = IdleCall
  /\ ret = NoRet
  /\ hook = NoHook
  /\ Unmounted

\* body of the socket effect for terrain provider tp: the socket it leaves
SocketEffect(tp) ==
  IF tp = "null" \/ DOMAIN detectorMap = {} THEN socket ELSE "connecting"

\* first render: the three effects run in order
Mount ==
  /\ alive = "new"
  /\ alive' = "mounted"
  /\ terrainPromise' = "pending"
  /\ mountedFlag' = TRUE
  /\ interval' = [active |-> TRUE, due |-> clock + SweepEvery]
  /\ socket' = SocketEffect(terrainProvider)
  /\ last' = NoTag
  /\ UNCHANGED <<callVars, hook, refVars, subscription, clock, terrainProvider,
                 pendingTerrain, vehicles, queue>>

\* createWorldTerrainAsync().then(provider => { if (mounted) setTerrainProvider(provider) })
TerrainResolve ==
  /\ terrainPromise = "pending"
  /\ terrainPromise' = "settled"
  /\ pendingTerrain' = mountedFlag
  /\ last' = NoTag
  /\ UNCHANGED <<callVars, hook, refVars, subscription, alive, clock, mountedFlag,
                 terrainProvider, interval, socket, vehicles, queue>>

\* the updater u throws: obj.object_id of a detection that is null is a
\* TypeError
Throws(u) ==
  u.kind = "upsert" /\ \E i \in DOMAIN u.msg.data : u.msg.data[i] = Null

\* a cleanup of the socket effect that leaves the socket as it is
Cleanup_LeavesSocket(s) == s

\* the cleanup of the socket effect, socket.disconnect(), on the socket s of
\* the run it belongs to (a run that returned early has none)
Cleanup(s) == IF s \in {"connecting", "connected"} THEN "disconnected" ELSE s

\* a render: the queued updaters run in order at Date.now() = clock, and
\* the socket effect runs again (its cleanup first) when terrainProvider
\* changed or the parent passed a new site. When an updater throws, the
\* render fails: nothing is committed and React unmounts the tree, which
\* runs the cleanups of the three effects
RenderWith(newSite) ==
  /\ alive = "mounted"
  /\ IF \E i \in DOMAIN queue : Throws(queue[i])
       THEN /\ alive' = "gone"
            /\ mountedFlag' = FALSE
            /\ interval' = [interval EXCEPT !.active = FALSE]
            /\ socket' = Cleanup(socket)
            /\ subscription' = NoSub
            /\ last' = Tag("crash", Garbage, vehicles, queue)
            /\ UNCHANGED <<vehicles, terrainProvider, opened>>
       ELSE /\ vehicles' = ProcessQueue(vehicles, queue, clock)
            /\ terrainProvider' = IF pendingTerrain THEN "loaded" ELSE terrainProvider
            /\ socket' = IF pendingTerrain \/ newSite
                           THEN SocketEffect(terrainProvider') ELSE socket
            /\ opened' = IF (pendingTerrain \/ newSite) /\ socket # "none"
                           THEN Append(opened, Cleanup(socket)) ELSE opened
            /\ subscription' = IF pendingTerrain \/ newSite THEN NoSub ELSE subscription
            /\ last' = [Tag("render", Garbage, vehicles, queue)
                         EXCEPT !.fresh = QueueFresh(vehicles, queue, clock)]
            /\ UNCHANGED <<alive, mountedFlag, interval>>
  /\ queue' = << >>
  /\ pendingTerrain' = FALSE
  /\ UNCHANGED <<callVars, hook, vehiclesRef, viewerRef, clock, terrainPromise>>

\* a render that React schedules for a state update
Render ==
  /\ pendingTerrain \/ queue # << >>
  /\ RenderWith(FALSE)

\* a render because the parent passed another site object
SiteChange ==
  /\ Len(opened) < MaxSockets
  /\ RenderWith(TRUE)

\* a connect handler that enters the room of the first road only
EnterRooms_FirstRoad(s) ==
  << "site_" \o ToString(s.site_id) \o "_road_" \o ToString(s.roads[1].road_id) >>

\* the enter_room emits of the connect handler for the site s, in order:
\* `site_${site.site_id}_road_${road.road_id}` for each road
EnterRooms(s) ==
  [i \in DOMAIN s.roads |->
     "site_" \o ToString(s.site_id) \o "_road_" \o ToString(s.roads[i].road_id)]

\* socket.on("connect"): it runs on the first connect and on every reconnect
Connect ==
  /\ socket = "connecting"
  /\ socket' = "connected"
  /\ subscription' = [rooms |-> subscription.rooms \cup
                                  {EnterRooms(site)[i] : i \in DOMAIN EnterRooms(site)},
                      connects |-> subscription.connects + 1]
  /\ last' = Tag("connect", Garbage, << >>, EnterRooms(site))
  /\ UNCHANGED <<callVars, hook, refVars, alive, clock, terrainPromise, mountedFlag,
                 terrainProvider, pendingTerrain, interval, vehicles, queue>>

\* JSON.parse(raw)
JSONparse(raw) == [threw |-> ~raw.json, msg |-> raw]

\* a handler that lets the SyntaxError of JSON.parse escape
NewRadarData_NoCatch(q, raw) ==
  LET parsed == JSONparse(raw)
      msg == parsed.msg
  IN  IF parsed.threw THEN [queue |-> q, escaped |-> TRUE]
      ELSE IF Number(msg.road_id) \notin DOMAIN detectorMap
             THEN [queue |-> q, escaped |-> FALSE]
      ELSE [queue |-> Append(q, UpsertOf(msg, detectorMap[Number(msg.road_id)])),
            escaped |-> FALSE]

\* a handler that places the detections of an unknown road at the first
\* detector instead of returning
NewRadarData_NoRadarCheck(q, raw) ==
  LET parsed == JSONparse(raw)
      msg == parsed.msg
  IN  IF parsed.threw THEN [queue |-> q, escaped |-> FALSE]
      ELSE IF Number(msg.road_id) \notin DOMAIN detectorMap
             THEN [queue |-> Append(q, UpsertOf(msg, detectorMap[55])), escaped |-> FALSE]
      ELSE [queue |-> Append(q, UpsertOf(msg, detectorMap[Number(msg.road_id)])),
            escaped |-> FALSE]

\* socket.on("new_radar_data"): the queue of updaters it leaves, and whether
\* an exception leaves the handler
NewRadarData(q, raw) ==
  LET parsed == JSONparse(raw)
      msg == parsed.msg
  IN  IF parsed.threw THEN [queue |-> q, escaped |-> FALSE]
      ELSE IF Number(msg.road_id) \notin DOMAIN detectorMap
             THEN [queue |-> q, escaped |-> FALSE]
      ELSE [queue |-> Append(q, UpsertOf(msg, detectorMap[Number(msg.road_id)])),
            escaped |-> FALSE]

\* a new_radar_data event; the server sends while a detection can still be
\* followed to its expiry before Horizon
OnRadarData(raw) ==
  /\ socket = "connected"
  /\ Len(queue) < MaxQueue
  /\ clock + StaleAfter < Horizon
  /\ queue' = NewRadarData(queue, raw).queue
  /\ last' = [Tag("new_radar_data", raw, << >>, << >>)
               EXCEPT !.escaped = NewRadarData(queue, raw).escaped]
  /\ UNCHANGED <<callVars, hook, refVars, subscription, alive, clock, terrainPromise,
                 mountedFlag, terrainProvider, pendingTerrain, interval, socket,
                 vehicles>>

\* the setInterval callback; it runs no earlier than it is due
SweepTick ==
  /\ interval.active
  /\ clock >= interval.due
  /\ Len(queue) < MaxQueue
  /\ queue' = Append(queue, SweepOf(clock))
  /\ interval' = [interval EXCEPT !.due = clock + SweepEvery]
  /\ last' = Tag("tick", Garbage, << >>, << >>)
  /\ UNCHANGED <<callVars, hook, refVars, subscription, alive, clock, terrainPromise,
                 mountedFlag, terrainProvider, pendingTerrain, socket, vehicles>>

\* time passes to a later instant, once the component is mounted, what it
\* has scheduled for rendering is rendered and a sweep tick that is due
\* has run
Advance(t) ==
  /\ alive # "new"
  /\ queue = << >> /\ ~pendingTerrain
  /\ ~(interval.active /\ clock >= interval.due)
  /\ t > clock
  /\ clock' = t
  /\ last' = NoTag
  /\ UNCHANGED <<callVars, hook, refVars, subscription, alive, terrainPromise,
                 mountedFlag, terrainProvider, pendingTerrain, interval, socket,
                 vehicles, queue>>

\* an unmount whose sweep effect has no cleanup
Unmount_KeepsInterval ==
  /\ alive = "mounted"
  /\ alive' = "gone"
  /\ mountedFlag' = FALSE
  /\ socket' = IF socket \in {"connecting", "connected"} THEN "disconnected" ELSE socket
  /\ queue' = << >>
  /\ pendingTerrain' = FALSE
  /\ subscription' = NoSub
  /\ last' = NoTag
  /\ UNCHANGED <<callVars, hook, refVars, clock, terrainPromise, terrainProvider,
                 vehicles, interval>>

\* unmount: the cleanups of the three effects run, updaters not yet
\* rendered are dropped
Unmount ==
  /\ alive = "mounted"
  /\ alive' = "gone"
  /\ mountedFlag' = FALSE
  /\ interval' = [interval EXCEPT !.active = FALSE]
  /\ socket' = Cleanup(socket)
  /\ queue' = << >>
  /\ pendingTerrain' = FALSE
  /\ subscription' = NoSub
  /\ last' = NoTag
  /\ UNCHANGED <<callVars, hook, refVars, clock, terrainPromise, terrainProvider,
                 vehicles>>

Next ==
  \/ Mount
  \/ TerrainResolve
  \/ Render
  \/ Connect
  \/ \E raw \in Payloads : OnRadarData(raw)
  \/ SweepTick
  \/ \E t \in Instants : Advance(t)
  \/ Unmount

Spec == Init /\ [][Next]_vars

\* the component fed by a server that respells road ids
NextRespelled ==
  \/ Mount
  \/ TerrainResolve
  \/ Render
  \/ Connect
  \/ \E raw \in Respelled : OnRadarData(raw)
  \/ SweepTick
  \/ \E t \in Instants : Advance(t)
  \/ Unmount

SpecRespelled == Init /\ [][NextRespelled]_vars

\* the component fed by a server that sends null in place of a detection
NextMalformed ==
  \/ Mount
  \/ TerrainResolve
  \/ Render
  \/ Connect
  \/ \E raw \in Malformed : OnRadarData(raw)
  \/ SweepTick
  \/ \E t \in Instants : Advance(t)
  \/ Unmount

SpecMalformed == Init /\ [][NextMalformed]_vars

\* the connection is lost (transport close, ping timeout): the server
\* forgets the rooms of the socket, the disconnect handler logs, and the
\* client reconnects on its own
Drop ==
  /\ socket = "connected"
  /\ subscription.connects < MaxConnects
  /\ socket' = "connecting"
  /\ subscription' = [subscription EXCEPT !.rooms = {}]
  /\ last' = Tag("disconnect", Garbage, << >>, << >>)
  /\ UNCHANGED <<callVars, hook, refVars, alive, clock, terrainPromise, mountedFlag,
                 terrainProvider, pendingTerrain, interval, vehicles, queue>>

\* the messages for the first road
FirstRoad == {raw \in Payloads : raw.road_id = "55"}

\* the component under a parent that passes new site objects
NextSites ==
  \/ Mount
  \/ TerrainResolve
  \/ Render
  \/ SiteChange
  \/ Connect
  \/ \E raw \in FirstRoad : OnRadarData(raw)
  \/ SweepTick
  \/ \E t \in Instants : Advance(t)
  \/ Unmount

\* time passes, the event loop runs a timer callback that is due, and React
\* renders what is scheduled
SpecSites ==
  /\ Init /\ [][NextSites]_vars
  /\ SF_vars(\E t \in Instants : Advance(t))
  /\ SF_vars(SweepTick)
  /\ WF_vars(Render)

\* the component on a connection that is lost and made again
NextReconnect ==
  \/ Mount
  \/ TerrainResolve
  \/ Render
  \/ Connect
  \/ Drop
  \/ \E raw \in FirstRoad : OnRadarData(raw)
  \/ SweepTick
  \/ \E t \in Instants : Advance(t)
  \/ Unmount

SpecReconnect == Init /\ [][NextReconnect]_vars

\* time passes, the event loop runs a timer callback that is due, and React
\* renders what is scheduled
SpecLive ==
  /\ Spec
  /\ SF_vars(\E t \in Instants : Advance(t))
  /\ SF_vars(SweepTick)
  /\ WF_vars(Render)

---------------------------------------------------------------------------
(* The variant that keeps its tracks in a ref, without a timestamp on the  *)
(* track (CesiumMap.tsx)                                                   *)

\* enuToWorld(lat, lng, x, y): the point x meters east and y meters north
\* of (lat, lng)
enuToWorld(lat, lng, x, y) ==
  [origin |-> [lat |-> lat, lng |-> lng], east |-> x, north |-> y]

\* the body of msg.data.forEach for the detections from the i-th on; of the
\* samples of a position the latest is kept, with its time
RECURSIVE RefForEachObj(_, _, _, _, _)
RefForEachObj(ref, msg, radar, t, i) ==
  IF i > Len(msg.data) THEN ref
  ELSE LET obj == msg.data[i]
           id == TrackId(msg, obj)
           sample == [time |-> t,
                      point |-> enuToWorld(radar.lat, radar.lng, obj.xpos, obj.ypos)]
       IN  RefForEachObj(MapSet(ref, id, [id |-> id, position |-> sample]),
                         msg, radar, t, i + 1)

\* first render: the viewer effect creates the viewer, then the socket
\* effect the socket
RefMount ==
  /\ alive = "new"
  /\ alive' = "mounted"
  /\ viewerRef' = [current |-> 1, entities |-> {}]
  /\ socket' = IF DOMAIN detectorMap = {} THEN socket ELSE "connecting"
  /\ last' = NoTag
  /\ UNCHANGED <<callVars, hook, subscription, opened, vehiclesRef, clock,
                 terrainPromise, mountedFlag, terrainProvider, pendingTerrain,
                 interval, vehicles, queue>>

\* socket.on("new_radar_data") of the variant: it writes vehiclesRef.current
\* in the handler, and adds an entity to the viewer for each identifier that
\* was not in vehiclesRef.current
RefRadarData(raw) ==
  /\ socket = "connected"
  /\ clock + StaleAfter < Horizon
  /\ vehiclesRef' =
       LET parsed == JSONparse(raw)
           msg == parsed.msg
       IN  IF parsed.threw THEN vehiclesRef
           ELSE IF Number(msg.road_id) \notin DOMAIN detectorMap THEN vehiclesRef
           ELSE RefForEachObj(vehiclesRef, msg, detectorMap[Number(msg.road_id)],
                              clock, 1)
  /\ viewerRef' = [viewerRef EXCEPT
                     !.entities = @ \cup (DOMAIN vehiclesRef' \ DOMAIN vehiclesRef)]
  /\ last' = Tag("new_radar_data", raw, << >>, << >>)
  /\ UNCHANGED <<callVars, hook, subscription, opened, alive, clock, terrainPromise,
                 mountedFlag, terrainProvider, pendingTerrain, interval, socket,
                 vehicles, queue>>

\* the socket of the variant connects; the variant registers no connect
\* handler
RefConnect ==
  /\ socket = "connecting"
  /\ socket' = "connected"
  /\ last' = NoTag
  /\ UNCHANGED <<callVars, hook, refVars, subscription, alive, clock, terrainPromise,
                 mountedFlag, terrainProvider, pendingTerrain, interval, vehicles,
                 queue>>

\* a render with another site object: the cleanup of the viewer effect
\* destroys the viewer and the effect creates a new one, then the cleanup of
\* the socket effect disconnects the socket and the effect creates a new one;
\* vehiclesRef.current is not touched
RefSiteChange ==
  /\ alive = "mounted"
  /\ Len(opened) < MaxSockets
  /\ viewerRef' = [current |-> viewerRef.current + 1, entities |-> {}]
  /\ opened' = Append(opened, Cleanup(socket))
  /\ socket' = IF DOMAIN detectorMap = {} THEN "none" ELSE "connecting"
  /\ last' = Tag("site", Garbage, << >>, << >>)
  /\ UNCHANGED <<callVars, hook, subscription, vehiclesRef, alive, clock,
                 terrainPromise, mountedFlag, terrainProvider, pendingTerrain,
                 interval, vehicles, queue>>

\* unmount: the viewer is destroyed and the socket disconnected
RefUnmount ==
  /\ alive = "mounted"
  /\ alive' = "gone"
  /\ viewerRef' = NoViewer
  /\ socket' = Cleanup(socket)
  /\ last' = NoTag
  /\ UNCHANGED <<callVars, hook, subscription, opened, vehiclesRef, clock,
                 terrainPromise, mountedFlag, terrainProvider, pendingTerrain,
                 interval, vehicles, queue>>

NextRef ==
  \/ RefMount
  \/ RefConnect
  \/ RefSiteChange
  \/ \E raw \in Payloads : RefRadarData(raw)
  \/ \E t \in Instants : Advance(t)
  \/ RefUnmount

SpecRef == Init /\ [][NextRef]_vars

\* time passes
SpecRefLive == SpecRef /\ SF_vars(\E t \in Instants : Advance(t))

---------------------------------------------------------------------------
(* The useCesium hook                                                      *)

\* most runs of the effect of one hook (React runs it twice on a mount in
\* strict mode, and again on each fast refresh)
MaxRuns == 4

\* the effect runs: initCesium() checks the refs, reads containerRef.current
\* as the first argument of new Cesium.Viewer and waits for the terrain
HookEffect ==
  /\ hook.phase \in {"new", "cleaned"}
  /\ hook.runs < MaxRuns
  /\ hook' = [hook EXCEPT
                !.phase = "mounted",
                !.runs = @ + 1,
                !.loads = IF ~hook.container \/ hook.viewerRef # 0 THEN @ ELSE @ + 1]
  /\ UNCHANGED <<callVars, compVars>>

\* createWorldTerrainAsync() resolves for one waiting initCesium(): the
\* viewer is constructed on the container read before the wait, and
\* viewerRef.current = v; setViewer(v)
HookLoaded ==
  /\ hook.loads > 0
  /\ hook' = [hook EXCEPT
                !.loads = @ - 1,
                !.viewers = Append(@, "alive"),
                !.viewerRef = Len(hook.viewers) + 1]
  /\ UNCHANGED <<callVars, compVars>>

\* viewerRef.current?.destroy()
DestroyCurrent(h) ==
  IF h.viewerRef = 0 THEN h.viewers
  ELSE [h.viewers EXCEPT ![h.viewerRef] = "destroyed"]

\* the cleanup of the effect, after which React runs the effect again
\* (strict mode)
HookCleanup ==
  /\ hook.phase = "mounted"
  /\ hook' = [hook EXCEPT !.phase = "cleaned",
                          !.viewers = DestroyCurrent(hook),
                          !.viewerRef = 0]
  /\ UNCHANGED <<callVars, compVars>>

\* the component unmounts: the container ref is detached and the cleanup of
\* the effect runs
HookUnmount ==
  /\ hook.phase = "mounted"
  /\ hook' = [hook EXCEPT !.phase = "gone",
                          !.container = FALSE,
                          !.viewers = DestroyCurrent(hook),
                          !.viewerRef = 0]
  /\ UNCHANGED <<callVars, compVars>>

NextHook ==
  \/ HookEffect
  \/ HookLoaded
  \/ HookCleanup
  \/ HookUnmount

SpecHook == Init /\ [][NextHook]_vars

---------------------------------------------------------------------------
(* radarToWGS84 on its own                                                 *)

Detectors ==
  { [lat |-> LatExample, lng |-> LonExample] } \cup
  { [lat |-> site.roads[i].detector.lat, lng |-> site.roads[i].detector.lng] :
      i \in DOMAIN site.roads }
Directions == {Deg0, Deg90, Deg180, Deg270, Dir55, Dir57}
Offsets == {Zero, FromInt(100), FromInt(-40)}

InitTransform ==
  /\ hook = NoHook
  /\ \E d \in Detectors, dir \in Directions, x \in Offsets, y \in Offsets :
       call = [radarLat |-> d.lat, radarLon |-> d.lng, radarDirection |-> dir,
               xpos |-> x, ypos |-> y]
  /\ ret = NoRet
  /\ Unmounted

\* most calls of radarToWGS84 with the same arguments
MaxCalls == 2

\* a call of radarToWGS84; a later one with the same arguments
Convert ==
  /\ ret.calls < MaxCalls
  /\ ret' = LET r == radarToWGS84(call.radarLat, call.radarLon,
                                  call.radarDirection, call.xpos, call.ypos)
            IN  [ret EXCEPT !.done = TRUE, !.latitude = r.latitude,
                            !.longitude = r.longitude, !.calls = @ + 1]
  /\ UNCHANGED <<call, hook, compVars>>

\* a call of radarRelativeToWorld with the same detector, direction and offset
Relative ==
  /\ ~ret.world.done
  /\ ret' = LET w == radarRelativeToWorld(call.radarLat, call.radarLon, call.xpos,
                                          call.ypos, call.radarDirection)
            IN  [ret EXCEPT !.world = [done |-> TRUE, east |-> w.east,
                                       north |-> w.north]]
  /\ UNCHANGED <<call, hook, compVars>>

\* time passes between two calls
Elapse(t) ==
  /\ ret.done /\ ret.calls < MaxCalls
  /\ t > clock
  /\ clock' = t
  /\ UNCHANGED <<call, ret, hook, refVars, subscription, alive, terrainPromise,
                 mountedFlag, terrainProvider, pendingTerrain, interval, socket,
                 vehicles, queue, last>>

NextTransform ==
  \/ Convert
  \/ Relative
  \/ \E t \in Instants : Elapse(t)

SpecTransform == InitTransform /\ [][NextTransform]_vars

---------------------------------------------------------------------------
(* Properties of radarToWGS84 (under SpecTransform)                        *)

\* C1: with radarDirection = 0 a forward-only offset (xpos = x, ypos = 0)
\* gives a point due north of the detector at distance x: the longitude is
\* the detector's and the latitude is the detector's plus x / R radians
\* (both up to rounding, 4 units in the last place).
C1_ForwardIsNorthAtDirection0 ==
  (ret.done /\ call.radarDirection = Deg0 /\ call.ypos = Zero) =>
    /\ Within(ret.longitude, call.radarLon, 4)
    /\ Within(ret.latitude,
              ToDegrees(Add(ToRadians(call.radarLat), Div(call.xpos, R))), 4)

\* C2: with radarDirection = 90 a forward-only offset (xpos = x, ypos = 0)
\* gives a point due east of the detector at distance x: the latitude is
\* the detector's and the longitude is the detector's plus
\* x / (R * cos(lat)) radians (both up to rounding).
C2_ForwardIsEastAtDirection90 ==
  (ret.done /\ call.radarDirection = Deg90 /\ call.ypos = Zero) =>
    /\ Within(ret.latitude, call.radarLat, 4)
    /\ Within(ret.longitude,
              ToDegrees(Add(ToRadians(call.radarLon),
                            Div(call.xpos,
                                Mul(R, MathCos(ToRadians(call.radarLat)))))), 4)

\* C3 as stated: with offset (0, 0) the call returns exactly the detector's
\* latitude and longitude, whatever the direction.
C3_ZeroOffsetIsExact ==
  (ret.done /\ call.xpos = Zero /\ call.ypos = Zero) =>
    /\ ret.latitude = call.radarLat
    /\ ret.longitude = call.radarLon

\* C3 as amended: with offset (0, 0) the east and north displacements are
\* zero whatever the direction, and the call returns the detector's latitude
\* and longitude up to the rounding of degrees -> radians -> degrees (within
\* 4 units in the last place of each).
C3_ZeroOffsetWithinRounding ==
  (ret.done /\ call.xpos = Zero /\ call.ypos = Zero) =>
    /\ rotatedX(call.radarDirection, call.xpos, call.ypos) = Zero
    /\ rotatedY(call.radarDirection, call.xpos, call.ypos) = Zero
    /\ Within(ret.latitude, call.radarLat, 4)
    /\ Within(ret.longitude, call.radarLon, 4)

\* a call with offset (0, 0) and a direction that is not a multiple of 90
\* has returned, and the conversion has rounded
C3_Witness ==
  /\ ret.done /\ call.xpos = Zero /\ call.ypos = Zero
  /\ call.radarDirection = Dir55
  /\ ret.latitude # call.radarLat \/ ret.longitude # call.radarLon

---------------------------------------------------------------------------
(* Properties of the track cache (under Spec)                              *)

\* the detections of the upserts of a batch, in the order they are applied
RECURSIVE Observations(_)
Observations(batch) ==
  IF batch = << >> THEN << >>
  ELSE LET u == Head(batch)
       IN  (IF u.kind = "upsert"
              THEN [i \in 1..Len(u.msg.data) |->
                      [msg |-> u.msg, radar |-> u.radar, obj |-> u.msg.data[i]]]
              ELSE << >>)
           \o Observations(Tail(batch))

\* the latest observation of id among obs
LatestFor(obs, id) ==
  obs[CHOOSE i \in DOMAIN obs :
        /\ TrackId(obs[i].msg, obs[i].obj) = id
        /\ \A j \in DOMAIN obs : TrackId(obs[j].msg, obs[j].obj) = id => j <= i]

\* C4: after the observations of a batch are applied, each identifier they
\* name has exactly one entry in the cache, stored under that identifier and
\* carrying the position, heading and type of the latest observation of it
\* and the time of the update; this holds whether the identifier was in the
\* cache before (replaced) or not (created). Every entry is stored under
\* its own identifier.
C4_UpsertKeepsOneLatestEntry ==
  /\ \A k \in DOMAIN vehicles : vehicles[k].id = k
  /\ last.ev = "render" =>
       LET obs == Observations(last.batch)
       IN  \A id \in {obs[n].msg.road_id \o "-" \o obs[n].obj.object_id : n \in DOMAIN obs} :
             LET o == LatestFor(obs, id)
                 wgs84 == radarToWGS84(o.radar.lat, o.radar.lng, o.radar.direction_deg,
                                       o.obj.xpos, o.obj.ypos)
             IN  /\ Cardinality({k \in DOMAIN vehicles : vehicles[k].id = id}) = 1
                 /\ id \in DOMAIN vehicles
                 /\ vehicles[id].position =
                      [longitude |-> wgs84.longitude, latitude |-> wgs84.latitude]
                 /\ vehicles[id].heading =
                      Mod360(Add(o.radar.direction_deg, OrZero(o.obj.heading)))
                 /\ vehicles[id].type = o.obj.object_type
                 /\ vehicles[id].lastUpdate = clock

\* an observation has replaced the entry of a cached identifier with other
\* values and a later time, and the same message has created an entry for an
\* identifier that was not cached
C4_Witness ==
  /\ last.ev = "render"
  /\ "55-1" \in DOMAIN last.before
  /\ "55-2" \notin DOMAIN last.before
  /\ \E i \in DOMAIN last.batch : last.batch[i].kind = "upsert"
  /\ {"55-1", "55-2"} \subseteq DOMAIN vehicles
  /\ vehicles["55-1"].type # last.before["55-1"].type
  /\ vehicles["55-1"].position # last.before["55-1"].position
  /\ vehicles["55-1"].lastUpdate > last.before["55-1"].lastUpdate

\* C5: a render that applies one sweep taken at time now removes exactly the
\* tracks with now - lastUpdate > 3000 and keeps every other track as it
\* was: a track last updated at now - 3001 is removed, one at now - 2999 is
\* kept, and one exactly at now - 3000 is kept.
C5_SweepRemovesExactlyTheStale ==
  (last.ev = "render" /\ Len(last.batch) = 1 /\ last.batch[1].kind = "sweep") =>
    LET now == last.batch[1].now
        prev == last.before
    IN  /\ \A id \in DOMAIN prev :
             id \in DOMAIN vehicles <=> ~(now - prev[id].lastUpdate > StaleAfter)
        /\ DOMAIN vehicles \subseteq DOMAIN prev
        /\ \A id \in DOMAIN vehicles : vehicles[id] = prev[id]
        /\ \A id \in DOMAIN prev :
             /\ prev[id].lastUpdate = now - 3001 => id \notin DOMAIN vehicles
             /\ prev[id].lastUpdate = now - 3000 => id \in DOMAIN vehicles
             /\ prev[id].lastUpdate = now - 2999 => id \in DOMAIN vehicles

\* one sweep has met a track one millisecond past the timeout, one exactly at
\* it and one a millisecond short of it
C5_Witness ==
  /\ last.ev = "render" /\ Len(last.batch) = 1 /\ last.batch[1].kind = "sweep"
  /\ \E a, b, c \in DOMAIN last.before :
       /\ last.before[a].lastUpdate = last.batch[1].now - 3001
       /\ last.before[b].lastUpdate = last.batch[1].now - 3000
       /\ last.before[c].lastUpdate = last.batch[1].now - 2999
       /\ a \notin DOMAIN vehicles
       /\ {b, c} \subseteq DOMAIN vehicles

\* the identifiers observed by the upserts of a batch
ObservedIn(batch) ==
  {TrackId(Observations(batch)[n].msg, Observations(batch)[n].obj) :
     n \in DOMAIN Observations(batch)}

\* a sweep removes every track that is past the timeout at its now and is
\* not observed in the same render
OverdueTracksSwept ==
  last.ev = "render" =>
    \A i \in DOMAIN last.batch :
      last.batch[i].kind = "sweep" =>
        \A id \in DOMAIN last.before \ ObservedIn(last.batch) :
          last.batch[i].now > last.before[id].lastUpdate + StaleAfter
            => id \notin DOMAIN vehicles

\* once every queued sweep is applied, a cached track was not past the
\* timeout when the sweep timer last ran (or was set)
FreshAtLastTick ==
  (alive = "mounted" /\ queue = << >>) =>
    \A id \in DOMAIN vehicles :
      (interval.due - SweepEvery) - vehicles[id].lastUpdate <= StaleAfter

\* C6 as stated: while the component is mounted no track is cached longer
\* than the timeout plus one sweep period after its last update.
C6_CachedAtMostTimeoutPlusPeriod ==
  alive = "mounted" =>
    \A id \in DOMAIN vehicles :
      clock - vehicles[id].lastUpdate <= StaleAfter + SweepEvery

\* C6 amended: while the component stays mounted a track is removed by the
\* first sweep whose now exceeds lastUpdate + timeout; a cached track was
\* within the timeout when the sweep timer last ran, so its age is bounded
\* by the timeout plus the time since that tick (ticks may run late), not by
\* timeout plus one period; and when messages stop the cache eventually
\* becomes empty.
C6_EventuallySwept ==
  /\ [](OverdueTracksSwept /\ FreshAtLastTick)
  /\ (alive = "mounted" /\ vehicles # << >>) ~> (alive = "gone" \/ vehicles = << >>)

\* a sweep that ran late has removed a track older than timeout plus one
\* period and left the cache empty
C6_Witness ==
  /\ last.ev = "render" /\ alive = "mounted"
  /\ \E i \in DOMAIN last.batch, id \in DOMAIN last.before :
       /\ last.batch[i].kind = "sweep"
       /\ last.batch[i].now - last.before[id].lastUpdate > StaleAfter + SweepEvery
  /\ vehicles = << >>

\* C7: a new_radar_data payload that is not parseable JSON is dropped: no
\* exception leaves the handler, the cache and the queued updates are
\* unchanged, the socket stays connected, and a well-formed message for a
\* known road that comes next is queued as usual.
C7_UnparseablePayloadDropped ==
  [][ /\ (last'.ev = "new_radar_data" /\ ~last'.raw.json) =>
           /\ ~last'.escaped
           /\ vehicles' = vehicles /\ queue' = queue
           /\ socket' = "connected" /\ alive' = "mounted"
           /\ interval' = interval
      /\ ( /\ last.ev = "new_radar_data" /\ ~last.raw.json
           /\ last'.ev = "new_radar_data" /\ last'.raw.json
           /\ Number(last'.raw.road_id) \in DOMAIN detectorMap ) =>
           /\ Len(queue') = Len(queue) + 1
           /\ queue'[Len(queue')].kind = "upsert"
           /\ queue'[Len(queue')].msg = last'.raw
    ]_vars

\* an unparseable payload has arrived while the cache held tracks and an
\* update was waiting to be rendered
C7_Witness ==
  /\ last.ev = "new_radar_data" /\ ~last.raw.json
  /\ vehicles # << >>
  /\ queue # << >>

\* C8: a parsed message whose road_id is not in detectorMap is ignored
\* whatever it carries: the handler queues no update, no exception leaves
\* it, the cache is unchanged, and no queued update or cached track ever
\* comes from such a message.
C8_UnknownRoadIgnored ==
  /\ [][ (last'.ev = "new_radar_data" /\ last'.raw.json
            /\ Number(last'.raw.road_id) \notin DOMAIN detectorMap) =>
           /\ vehicles' = vehicles /\ queue' = queue /\ ~last'.escaped ]_vars
  /\ [](/\ \A i \in DOMAIN queue :
             queue[i].kind = "upsert" =>
               Number(queue[i].msg.road_id) \in DOMAIN detectorMap
        /\ \A id \in DOMAIN vehicles :
             \A o \in {ObjA, ObjB, ObjC} : id # "99" \o "-" \o o.object_id)

\* a message for road 99 has arrived while the cache held tracks
C8_Witness ==
  /\ last.ev = "new_radar_data" /\ last.raw.json
  /\ Number(last.raw.road_id) \notin DOMAIN detectorMap
  /\ Len(last.raw.data) > 0
  /\ vehicles # << >>

\* the cache that the updates of a batch leave when they are applied to prev
\* one at a time in queue order during a render at time t
AppliedInOrder(prev, batch, t) ==
  LET obs == Observations(batch)
      seen == ObservedIn(batch)
      kept == {id \in DOMAIN prev \ seen :
                 \A i \in DOMAIN batch :
                   batch[i].kind = "sweep" =>
                     ~(batch[i].now - prev[id].lastUpdate > StaleAfter)}
  IN  [id \in seen \cup kept |->
         IF id \in seen
           THEN LET o == LatestFor(obs, id)
                    wgs84 == radarToWGS84(o.radar.lat, o.radar.lng,
                                          o.radar.direction_deg, o.obj.xpos, o.obj.ypos)
                IN  [id |-> id,
                     position |-> [longitude |-> wgs84.longitude,
                                   latitude |-> wgs84.latitude],
                     heading |-> Mod360(Add(o.radar.direction_deg, OrZero(o.obj.heading))),
                     type |-> o.obj.object_type,
                     lastUpdate |-> t]
           ELSE prev[id]]

\* C9: for every interleaving of new_radar_data events and sweep ticks the
\* cache after a render is the one that results from applying the queued
\* updates one at a time, in queue order, each to the result of the one
\* before: every identifier observed in the batch is cached with the latest
\* observation (no upsert is lost to a sweep queued with it), and a track
\* that a queued sweep finds stale and that is not observed is gone (it
\* does not come back from an older copy of the cache).
C9_UpdatesAppliedInQueueOrder ==
  last.ev = "render" =>
    /\ vehicles = AppliedInOrder(last.before, last.batch, clock)
    /\ ObservedIn(last.batch) \subseteq DOMAIN vehicles
    /\ \A id \in ObservedIn(last.batch) : vehicles[id].lastUpdate = clock
    /\ \A id \in DOMAIN last.before \ ObservedIn(last.batch) :
         (\E i \in DOMAIN last.batch :
            /\ last.batch[i].kind = "sweep"
            /\ last.batch[i].now - last.before[id].lastUpdate > StaleAfter)
         => id \notin DOMAIN vehicles

\* one render has applied an upsert and then a sweep: the observed track
\* was stale for the sweep before the upsert and is kept, another stale track
\* is removed
C9_Witness ==
  /\ last.ev = "render" /\ Len(last.batch) = 2
  /\ last.batch[1].kind = "upsert" /\ last.batch[2].kind = "sweep"
  /\ \E a, b \in DOMAIN last.before :
       /\ a \in ObservedIn(last.batch)
       /\ b \notin ObservedIn(last.batch)
       /\ last.batch[2].now - last.before[a].lastUpdate > StaleAfter
       /\ last.batch[2].now - last.before[b].lastUpdate > StaleAfter
       /\ a \in DOMAIN vehicles
       /\ b \notin DOMAIN vehicles

\* C10: once the component is unmounted the sweep interval is not active,
\* the socket is not connecting or connected, nothing is queued for a
\* render, and from then on no sweep tick, new_radar_data handler or render
\* runs and the cache, the timer and the socket do not change, whatever
\* happened before the unmount and whatever is still pending (a terrain
\* promise that settles later, a timer that was due).
C10_TeardownReleasesTimerAndSocket ==
  /\ [](alive = "gone" =>
          /\ ~interval.active
          /\ socket \notin {"connecting", "connected"}
          /\ queue = << >>
          /\ ~pendingTerrain
          /\ ~mountedFlag)
  /\ [][alive = "gone" =>
          /\ alive' = "gone"
          /\ vehicles' = vehicles /\ queue' = queue
          /\ socket' = socket /\ interval' = interval
          /\ last'.ev \notin {"tick", "new_radar_data", "render"}]_vars

\* the component is unmounted with a connected socket closed, tracks in the
\* cache, and the clock past the time the next sweep tick was due
C10_Witness ==
  /\ alive = "gone"
  /\ socket = "disconnected"
  /\ vehicles # << >>
  /\ clock >= interval.due
  /\ terrainPromise = "settled"

\* the road_id texts and object ids that the payloads carry
RoadTexts == {p.road_id : p \in {q \in Payloads \cup Respelled : q.json}}
ObjectIds == {"1", "2"}

\* C11: the identifier is one per (detector, object id): the observations
\* that resolve to one detector through Number(msg.road_id) and carry one
\* object_id address one cache entry, so the cache never holds two tracks
\* for the same detector and object id.
C11_OneTrackPerDetectorAndObject ==
  \A d \in DOMAIN detectorMap, oid \in ObjectIds :
    Cardinality({id \in DOMAIN vehicles :
                   \E rt \in RoadTexts : Number(rt) = d /\ id = rt \o "-" \o oid}) <= 1

\* C12: a render that applies one sweep which finds no stale track leaves
\* the cache with the same content and the same Map object (prev is
\* returned, so React sees no state change); the Map object is a new one
\* exactly when at least one track was removed.
C12_SweepWithoutStaleReturnsPrev ==
  (last.ev = "render" /\ Len(last.batch) = 1 /\ last.batch[1].kind = "sweep") =>
    LET stale == {id \in DOMAIN last.before :
                    last.batch[1].now - last.before[id].lastUpdate > StaleAfter}
    IN  /\ stale = {} => (vehicles = last.before /\ ~last.fresh)
        /\ last.fresh <=> stale # {}
        /\ last.fresh <=> DOMAIN vehicles # DOMAIN last.before

\* a sweep has run over a cache that holds tracks, none of them stale
C12_Witness ==
  /\ last.ev = "render" /\ Len(last.batch) = 1 /\ last.batch[1].kind = "sweep"
  /\ last.before # << >>
  /\ vehicles = last.before
  /\ ~last.fresh

\* C13: for every cache the component reaches and every now, sweeping twice
\* with the same now gives the cache that sweeping once gives, and the
\* second sweep removes nothing (it returns its argument).
C13_SweepIdempotent ==
  \A now \in Instants :
    LET once == SweepUpdater(vehicles, now)
    IN  /\ SweepUpdater(once, now) = once
        /\ ~changed(once, now)

\* a cache in which a sweep finds two tracks stale and a third fresh
C13_Witness ==
  \E now \in Instants :
    /\ Cardinality(DOMAIN vehicles \ DOMAIN SweepUpdater(vehicles, now)) >= 2
    /\ SweepUpdater(vehicles, now) # << >>

C15_VariantsDisagree ==
  ret.world.done =>
    LET east == rotatedX(call.radarDirection, call.xpos, call.ypos)
        north == rotatedY(call.radarDirection, call.xpos, call.ypos)
    IN  /\ east # north => (ret.world.east # east \/ ret.world.north # north)
        /\ (call.radarDirection = Deg0 /\ call.xpos = FromInt(100) /\ call.ypos = Zero) =>
             /\ east = FromInt(100) /\ north = Zero
             /\ ret.world.east = Zero /\ ret.world.north = FromInt(100)

\* radarRelativeToWorld has been called with direction 0 and a forward
\* offset of 100 m
C15_Witness ==
  /\ ret.world.done
  /\ call.radarDirection = Deg0 /\ call.xpos = FromInt(100) /\ call.ypos = Zero
  /\ ret.world.north = FromInt(100)
  /\ rotatedY(call.radarDirection, call.xpos, call.ypos) = Zero

\* C17: the heading stored by an upsert is (direction_deg + obj.heading) % 360
\* with a missing or zero obj.heading counted as 0: a detection without a
\* heading offset gets the direction of its detector, and a sum of 360 or
\* more is brought back below 360.
C17_HeadingIsDirectionPlusOffset ==
  (last.ev = "render" /\ Len(last.batch) = 1 /\ last.batch[1].kind = "upsert") =>
    LET msg == last.batch[1].msg
        radar == last.batch[1].radar
    IN  \A i \in DOMAIN msg.data :
          (\A j \in DOMAIN msg.data :
             j > i => TrackId(msg, msg.data[j]) # TrackId(msg, msg.data[i]))
            =>
          LET obj == msg.data[i]
              heading == vehicles[TrackId(msg, obj)].heading
              offset == IF obj.heading = Undefined \/ obj.heading = Zero
                          THEN Zero ELSE obj.heading
              sum == Add(radar.direction_deg, offset)
              over == Sub(sum, FromInt(360))
          IN  /\ heading = IF over.m = 0 \/ over.s = 1 THEN over ELSE sum
              /\ offset = Zero => heading = radar.direction_deg
              /\ Sub(heading, FromInt(360)).s = -1

\* one message for the detector at 270.67 degrees has been rendered: the
\* detection with heading 90 is stored with the sum less 360, the one with
\* heading 0 with the direction of the detector
C17_Witness ==
  /\ last.ev = "render" /\ Len(last.batch) = 1 /\ last.batch[1].kind = "upsert"
  /\ last.batch[1].msg.road_id = "55"
  /\ last.batch[1].msg.data = <<ObjA, ObjC>>
  /\ vehicles["55-1"].heading = Sub(Add(Dir55, FromInt(90)), FromInt(360))
  /\ vehicles["55-1"].heading # Add(Dir55, FromInt(90))
  /\ vehicles["55-2"].heading = Dir55

\* C18: a render changes only the tracks observed by the messages it
\* applies: every other track of the cache has the position, heading, type
\* and lastUpdate it had before, no track appears unobserved, and unless the
\* render applies a sweep no track is removed; the tracks a sweep leaves are
\* unchanged.
C18_OnlyObservedTracksChange ==
  last.ev = "render" =>
    /\ \A id \in DOMAIN vehicles \ ObservedIn(last.batch) :
         id \in DOMAIN last.before /\ vehicles[id] = last.before[id]
    /\ (\A i \in DOMAIN last.batch : last.batch[i].kind = "upsert") =>
         DOMAIN last.before \subseteq DOMAIN vehicles

\* one message has been rendered over a cache that held a track it observes
\* and a track it does not: the first is rewritten, the second is as before
C18_Witness ==
  /\ last.ev = "render" /\ Len(last.batch) = 1 /\ last.batch[1].kind = "upsert"
  /\ \E a, b \in DOMAIN last.before :
       /\ a \in ObservedIn(last.batch) /\ vehicles[a] # last.before[a]
       /\ b \notin ObservedIn(last.batch) /\ vehicles[b] = last.before[b]

\* C19: a message is applied to the cache as a whole: after a render of
\* messages every detection of every message is in the cache with the time
\* of the render, and when a detection of a message cannot be processed the
\* component is still mounted with the cache as it was before that message,
\* that is with the other messages of the render applied.
C19_MessageAppliedAtomically ==
  /\ (/\ last.ev = "render"
      /\ \A i \in DOMAIN last.batch : last.batch[i].kind = "upsert")
       => \A id \in ObservedIn(last.batch) :
            id \in DOMAIN vehicles /\ vehicles[id].lastUpdate = clock
  /\ last.ev = "crash" =>
       /\ alive = "mounted"
       /\ vehicles = AppliedInOrder(last.before,
                                    SelectSeq(last.batch, LAMBDA u : ~Throws(u)), clock)

\* the sockets the component has created that are not disconnected
LiveSockets ==
  (IF socket \in {"connecting", "connected"} THEN 1 ELSE 0)
    + Cardinality({i \in DOMAIN opened : opened[i] \in {"connecting", "connected"}})

\* C20: at most one socket of the component is live at any time: every
\* socket of an earlier run of the socket effect was disconnected before the
\* next one was created, and once the component is unmounted none is live.
C20_AtMostOneLiveSocket ==
  /\ LiveSockets <= 1
  /\ \A i \in DOMAIN opened : opened[i] = "disconnected"
  /\ alive = "gone" => LiveSockets = 0

\* the socket effect has run again after a connected socket: that one is
\* disconnected and a new one is being connected
C20_Witness ==
  /\ alive = "mounted"
  /\ opened # << >> /\ opened[Len(opened)] = "disconnected"
  /\ socket \in {"connecting", "connected"}
  /\ LiveSockets = 1

\* C20 as stated: at most one socket is live, and every socket created is
\* eventually disconnected.
C20_EverySocketEventuallyDisconnected ==
  /\ [](LiveSockets <= 1)
  /\ (socket \in {"connecting", "connected"}) ~> (socket = "disconnected")

---------------------------------------------------------------------------
(* Properties of the variant without timestamps (under SpecRefLive)        *)

\* C16: in the variant that keeps its tracks in vehiclesRef without a
\* timestamp, a track that has been unseen for longer than the timeout is
\* deleted from the cache (or the component is gone).
C16_UnseenTrackIsDeleted ==
  \A id \in {r \o "-" \o o : r \in RoadTexts, o \in ObjectIds} :
    (/\ alive = "mounted"
     /\ id \in DOMAIN vehiclesRef
     /\ clock - vehiclesRef[id].position.time > StaleAfter)
      ~> (alive = "gone" \/ id \notin DOMAIN vehiclesRef)

---------------------------------------------------------------------------
(* Properties of the room subscription (under SpecReconnect)               *)

\* C21: every connect event of the socket, the first and each reconnect,
\* emits exactly one enter_room for each road of the site, named
\* site_<site_id>_road_<road_id>; whenever the socket is connected the
\* server has it in the room of every road.
C21_EnterRoomPerRoadOnEveryConnect ==
  LET all == {"site_213_road_55", "site_213_road_56", "site_213_road_57"}
  IN  /\ socket = "connected" => subscription.rooms = all
      /\ last.ev = "connect" =>
           /\ Len(last.batch) = Len(site.roads)
           /\ \A room \in all :
                Cardinality({i \in DOMAIN last.batch : last.batch[i] = room}) = 1

\* a socket has connected for the second time, after a lost connection, and
\* is in the three rooms again
C21_Witness ==
  /\ last.ev = "connect"
  /\ subscription.connects = 2
  /\ Cardinality(subscription.rooms) = 3

---------------------------------------------------------------------------
(* Properties of the variant's viewer (under SpecRef)                      *)

\* C23: in CesiumMap.tsx, while the component is mounted every track of
\* vehiclesRef has an entity with its id in the viewer that is live.
C23_EveryTrackHasAnEntity ==
  alive = "mounted" => DOMAIN vehiclesRef \subseteq viewerRef.entities

---------------------------------------------------------------------------
(* Properties of the useCesium hook (under SpecHook)                       *)

\* C22: for every interleaving of effect runs, terrain loads completing and
\* unmount, at most one viewer is alive at a time, and once the hook is torn
\* down every viewer that was created is destroyed.
C22_OneViewerAndNoneLeftBehind ==
  LET living == {i \in DOMAIN hook.viewers : hook.viewers[i] = "alive"}
  IN  /\ Cardinality(living) <= 1
      /\ (hook.phase = "gone" /\ hook.loads = 0) => living = {}

=============================================================================
